---- MODULE Spec2Model ----
(***************************************************************************)
(* Model of the bulk text-to-speech downloader.                            *)
(*   src/script.py : the API variant (main_parallel, process_sentence_batch,*)
(*                   MicMonsterAPI.generate_audio)                          *)
(*   src/main.py   : the browser variant (main, process_excel,             *)
(*                   wait_for_file)                                         *)
(* File names and cell texts are sequences of one-character strings, so    *)
(* that formatting, os.path.splitext, str.lower and str.strip are computed *)
(* as the code computes them.                                              *)
(***************************************************************************)
EXTENDS Integers, Sequences, FiniteSets, TLC

\* ------------------------------------------------------------------------
\* Bounds of the model
\* ------------------------------------------------------------------------
\* SpecSplit: the largest sentence count.
MaxN == 20
\* SpecApi: the largest number of cells in column 0 of the spreadsheet.
MaxCells == 3
\* SpecApiPar: the largest number of sentences beyond one per worker.
MaxExtra == 0

\* SpecExcel: the largest number of rows of the shard.
MaxRows == 2
\* SpecExcel: the largest number of earlier runs whose outputs are still in
\* the worker directory.
MaxPrior == 2

\* the greatest sentence number of a generate_audio call
MaxNum == 2

\* ------------------------------------------------------------------------
\* Program constants
\* ------------------------------------------------------------------------
MAX_WORKERS == 5

PAGE_LOAD_TIMEOUT == 30

CONVERT_TIMEOUT == 90

DOWNLOAD_APPEAR_TIMEOUT == 120

\* DOWNLOAD_DIR = Path("api_downloads")
DOWNLOAD_DIR == <<"a","p","i","_","d","o","w","n","l","o","a","d","s">>

\* ------------------------------------------------------------------------
\* Strings
\* ------------------------------------------------------------------------
DigitChars == <<"0","1","2","3","4","5","6","7","8","9">>

RECURSIVE DecStr(_)
\* str(n) / format(n, "d") for n >= 0
DecStr(n) ==
    IF n < 10 THEN <<DigitChars[n + 1]>>
    ELSE DecStr(n \div 10) \o <<DigitChars[(n % 10) + 1]>>

RECURSIVE ZeroPad(_, _)
ZeroPad(s, width) == IF Len(s) >= width THEN s ELSE ZeroPad(<<"0">> \o s, width)

\* format(n, "04d")
Fmt04d(n) == ZeroPad(DecStr(n), 4)

IsSpace(c) == c \in {" ", "\t", "\n", "\r"}

RECURSIVE LStrip(_)
LStrip(s) == IF s # <<>> /\ IsSpace(Head(s)) THEN LStrip(Tail(s)) ELSE s

RECURSIVE RStrip(_)
RStrip(s) ==
    IF s # <<>> /\ IsSpace(s[Len(s)]) THEN RStrip(SubSeq(s, 1, Len(s) - 1)) ELSE s

\* str.strip()
Strip(s) == RStrip(LStrip(s))

\* s[:k]
Prefix(s, k) == SubSeq(s, 1, IF Len(s) < k THEN Len(s) ELSE k)

UpperChars == <<"A","B","C","D","E","F","G","H","I","J","K","L","M",
                "N","O","P","Q","R","S","T","U","V","W","X","Y","Z">>
LowerChars == <<"a","b","c","d","e","f","g","h","i","j","k","l","m",
                "n","o","p","q","r","s","t","u","v","w","x","y","z">>

LowerChar(c) ==
    IF \E i \in DOMAIN UpperChars : UpperChars[i] = c
    THEN LowerChars[CHOOSE i \in DOMAIN UpperChars : UpperChars[i] = c]
    ELSE c

\* str.lower()
Lower(s) == [i \in DOMAIN s |-> LowerChar(s[i])]

\* str.endswith(suffix)
EndsWith(s, suffix) ==
    /\ Len(s) >= Len(suffix)
    /\ SubSeq(s, Len(s) - Len(suffix) + 1, Len(s)) = suffix

\* os.path.splitext on a file name without directory part: the extension
\* starts at the last dot, unless only dots come before it.
\* (The code applies it to os.path.join(worker_dir, name); splitext looks
\* only at the part after the last separator, so the directory has no part
\* in the result and paths are kept relative to the worker directory.)
SplitExt(name) ==
    LET dots == {i \in DOMAIN name : name[i] = "."} IN
    IF dots = {} THEN <<name, <<>>>>
    ELSE LET d == CHOOSE i \in dots : \A j \in dots : j <= i IN
         IF \E k \in 1..(d - 1) : name[k] # "."
         THEN <<SubSeq(name, 1, d - 1), SubSeq(name, d, Len(name))>>
         ELSE <<name, <<>>>>

\* ------------------------------------------------------------------------
\* Spreadsheet cells, as pandas.read_excel returns them: an empty cell is
\* NaN, a text cell a str, a numeric cell a number (val is its str()).
\* ------------------------------------------------------------------------
NaNCell == [kind |-> "nan", val |-> <<"n","a","n">>]
TextCell(s) == [kind |-> "str", val |-> s]
NumCell(s) == [kind |-> "num", val |-> s]

\* pd.isna(cell)
IsNa(cell) == cell.kind = "nan"

\* Series.dropna().tolist()
Dropna(col) == SelectSeq(col, LAMBDA c : ~IsNa(c))

\* "the input text is blank or whitespace-only"
IsBlank(cell) == IsNa(cell) \/ Strip(cell.val) = <<>>

RECURSIVE SeqsUpTo(_, _)
\* all sequences over S of length at most n
SeqsUpTo(S, n) ==
    IF n = 0 THEN {<<>>}
    ELSE LET shorter == SeqsUpTo(S, n - 1)
         IN  shorter \cup {Append(q, x) : q \in {s \in shorter : Len(s) = n - 1}, x \in S}

Range(f) == {f[i] : i \in DOMAIN f}

Workers == 1..MAX_WORKERS

VARIABLES
    \* ---- src/script.py
    excel_ok,          \* whether pd.read_excel(excel_file) returns
    column,            \* column 0 of the spreadsheet
    mp_pc,             \* main_parallel's position
    sentences,         \* main_parallel: sentences
    batches,           \* main_parallel: batches
    split_i,           \* main_parallel: i of the splitting loop
    global_stats,      \* global_stats
    progress_lock,     \* holder of progress_lock, 0 when free
    w_pc,              \* process_sentence_batch: position, per worker
    w_idx,             \* process_sentence_batch: index into sentences_batch
    w_success,         \* process_sentence_batch: success
    batch_results,     \* process_sentence_batch: batch_results
    api_writes,        \* files written by generate_audio: [w, dir, name, text]
    collected,         \* futures as_completed has yielded
    successful_count,  \* main_parallel: successful_count
    failed_sentences,  \* main_parallel: failed_sentences
    \* ---- src/main.py, process_excel of one worker
    pe_cells,          \* df.iloc[:, INPUT_COL_INDEX] as read from the shard
    pe_pc,             \* process_excel's position
    row_idx,           \* row_idx (0-based, as in the code)
    df_out,            \* df.iloc[:, out_col_index]
    wdir,              \* files in worker_dir: [name, mtime, src]
    fs_clock,          \* the file system's clock, for modification times
    inflight,          \* downloads the browser has been asked for: [row, phase, name]
    observed,          \* wait_for_file: observed
    elapsed,           \* wait_for_file: whole seconds slept since start
    downloaded,        \* process_excel: downloaded
    target_path,       \* process_excel: target_path
    log_errors,        \* rows with a logger.error "Error on row" entry
    fault_rows,        \* rows in whose try block an exception was raised
    timeouts,          \* rows whose wait_for_file raised TimeoutError
    visited,           \* the rows the loop has reached, in order
    shard_error,       \* the step outside the row loop that raised, or "none"
    out_excel,         \* the file df.to_excel writes: [written, rows]
    detected,          \* per row, the file wait_for_file returned for it
    \* ---- src/main.py, main and its pool of five process_excel calls
    m_pc,              \* main's position
    tpl_i,             \* main: how many of EXCEL_FILES the template loop has passed
    xl_exists,         \* per shard, whether its input spreadsheet exists
    xl_fs,             \* the spreadsheet files on disk: name -> [kind, shard]; kind is
                       \* "input" (as main hands it to the shard) or "output"
    f_pc,              \* per shard, the position of its process_excel call
    results,           \* main: results
    \* ---- src/script.py, one call of MicMonsterAPI.generate_audio
    ga_pc,             \* generate_audio's position
    ga_num,            \* sentence_num
    ga_resp,           \* what session.post does: [raises, status, empty, json, b64]
    ga_tried,          \* the decodes attempted so far, in order
    ga_dir,            \* the files of DOWNLOAD_DIR: name -> [by, data]
    ga_prior,          \* the names that were in DOWNLOAD_DIR before the call
    ga_ret,            \* the value returned, "pending" before the return
    \* ---- src/main.py, the page steps of one row of process_excel
    rc_ctl,            \* the step of the row: load, type, mohan, shruti, convert, download
    rc_step,           \* "wait" for the element, "click" it, or "idle"
    rc_sel,            \* the selector in use: primary or fallback
    rc_tier,           \* the next click tier to try on the element found
    rc_log,            \* what was tried for the current control, in order
    rc_waited          \* seconds spent in WebDriverWait for the current control

api_vars == <<excel_ok, column, mp_pc, sentences, batches, split_i, global_stats,
              progress_lock, w_pc, w_idx, w_success, batch_results, api_writes,
              collected, successful_count, failed_sentences>>

excel_vars == <<pe_cells, pe_pc, row_idx, df_out, wdir, fs_clock, inflight, observed,
                elapsed, downloaded, target_path, log_errors, fault_rows, timeouts, visited,
                shard_error, out_excel, detected>>

main_vars == <<m_pc, tpl_i, xl_exists, xl_fs, f_pc, results>>

ga_vars == <<ga_pc, ga_num, ga_resp, ga_tried, ga_dir, ga_prior, ga_ret>>

rc_vars == <<rc_ctl, rc_step, rc_sel, rc_tier, rc_log, rc_waited>>

vars == <<api_vars, excel_vars, main_vars, ga_vars, rc_vars>>

\* no call of generate_audio under way
GaIdle ==
    /\ ga_pc = "idle"
    /\ ga_num = 0
    /\ ga_resp = <<>>
    /\ ga_tried = <<>>
    /\ ga_dir = <<>>
    /\ ga_prior = {}
    /\ ga_ret = "pending"

\* no row under way
RcIdle ==
    /\ rc_ctl = "idle"
    /\ rc_step = "idle"
    /\ rc_sel = "none"
    /\ rc_tier = 0
    /\ rc_log = <<>>
    /\ rc_waited = 0

\* len(EXCEL_FILES), and max_workers of main's pool
NumShards == 5

Shards == 1..NumShards

\* main not running
MainIdle ==
    /\ m_pc = "idle"
    /\ tpl_i = 0
    /\ xl_exists = [w \in Shards |-> TRUE]
    /\ xl_fs = <<>>
    /\ f_pc = [w \in Shards |-> "none"]
    /\ results = <<>>

\* ------------------------------------------------------------------------
\* src/script.py: main_parallel, job splitting
\* ------------------------------------------------------------------------
\* sentences_per_worker = len(sentences) // MAX_WORKERS
SentencesPerWorker(ss) == Len(ss) \div MAX_WORKERS

SplitStart(ss, i) == i * SentencesPerWorker(ss)

SplitEndNoRemainder(ss, i) == SplitStart(ss, i) + SentencesPerWorker(ss)

\* end_idx: the last worker takes the remaining sentences
SplitEnd(ss, i) ==
    IF i = MAX_WORKERS - 1 THEN Len(ss)
    ELSE SplitStart(ss, i) + SentencesPerWorker(ss)

BatchLocalNumbers(ss, i) ==
    [k \in 1..(IF SplitEnd(ss, i) > SplitStart(ss, i)
               THEN SplitEnd(ss, i) - SplitStart(ss, i) ELSE 0)
        |-> <<k, ss[SplitStart(ss, i) + k]>>]

\* [(idx + 1, sentences[idx]) for idx in range(start_idx, end_idx)]
\* (idx is 0-based in the code; ss is 1-based here)
BatchSentences(ss, i) ==
    [k \in 1..(IF SplitEnd(ss, i) > SplitStart(ss, i)
               THEN SplitEnd(ss, i) - SplitStart(ss, i) ELSE 0)
        |-> <<SplitStart(ss, i) + k, ss[SplitStart(ss, i) + k]>>]

\* one iteration of "for i in range(MAX_WORKERS)"
SplitStep ==
    /\ mp_pc = "split"
    /\ split_i < MAX_WORKERS
    /\ batches' = Append(batches, <<split_i + 1, BatchSentences(sentences, split_i)>>)
    /\ split_i' = split_i + 1
    /\ UNCHANGED <<excel_vars, main_vars, ga_vars, rc_vars>>
    /\ UNCHANGED <<excel_ok, column, mp_pc, sentences, global_stats, progress_lock,
                   w_pc, w_idx, w_success, batch_results, api_writes, collected,
                   successful_count, failed_sentences>>

ApiIdle ==
    /\ progress_lock = 0
    /\ w_pc = [w \in Workers |-> "idle"]
    /\ w_idx = [w \in Workers |-> 0]
    /\ w_success = [w \in Workers |-> "False"]
    /\ batch_results = [w \in Workers |-> <<>>]
    /\ api_writes = {}
    /\ collected = {}
    /\ successful_count = 0
    /\ failed_sentences = <<>>

\* process_excel not running
ExcelIdle ==
    /\ pe_cells = <<>>
    /\ pe_pc = "idle"
    /\ row_idx = 0
    /\ df_out = <<>>
    /\ wdir = {}
    /\ fs_clock = 0
    /\ inflight = {}
    /\ observed = {}
    /\ elapsed = 0
    /\ downloaded = <<>>
    /\ target_path = <<>>
    /\ log_errors = {}
    /\ fault_rows = {}
    /\ timeouts = {}
    /\ visited = <<>>
    /\ shard_error = "none"
    /\ out_excel = [written |-> FALSE, rows |-> <<>>]
    /\ detected = <<>>

\* The splitting loop alone, entered with any sentence count 0..MaxN.
InitSplit ==
    /\ \E n \in 0..MaxN :
          /\ sentences = [k \in 1..n |-> TextCell(DecStr(k))]
          /\ column = sentences
    /\ excel_ok = TRUE
    /\ mp_pc = "split"
    /\ batches = <<>>
    /\ split_i = 0
    /\ ApiIdle
    /\ ExcelIdle
    /\ MainIdle
    /\ GaIdle
    /\ RcIdle
    /\ global_stats = [completed |-> 0, failed |-> 0, total |-> Len(sentences)]

NextSplit == SplitStep

SpecSplit == InitSplit /\ [][NextSplit]_vars

\* ------------------------------------------------------------------------
\* src/script.py: MicMonsterAPI.generate_audio
\* ------------------------------------------------------------------------
\* What session.post gives back, by the branch of generate_audio it takes.
Responses ==
    {"post_raises",        \* requests raises (connection error, timeout)
     "status_not_200",
     "empty_body",         \* 200, response.text.strip() is empty
     "json_audio",         \* 200, JSON object, audioContent is valid base64
     "json_audio_bad",     \* 200, JSON object, audioContent is not valid base64
     "json_no_audio",      \* 200, JSON object without audioContent
     "text_base64",        \* 200, not JSON, the body is valid base64
     "text_raw"}           \* 200, not JSON, the body is not valid base64

\* f"sentence_{sentence_num:04d}.mp3"
SentenceFileName(sentence_num) ==
    <<"s","e","n","t","e","n","c","e","_">> \o Fmt04d(sentence_num)
        \o <<".","m","p","3">>

\* the value generate_audio returns, and whether it wrote the file
GenerateAudio(resp) ==
    CASE resp = "post_raises"    -> [ret |-> "False", wrote |-> FALSE]
      [] resp = "status_not_200" -> [ret |-> "False", wrote |-> FALSE]
      [] resp = "empty_body"     -> [ret |-> "False", wrote |-> FALSE]
      [] resp = "json_audio"     -> [ret |-> "True",  wrote |-> TRUE]
      [] resp = "json_audio_bad" -> [ret |-> "False", wrote |-> FALSE]
      [] resp = "json_no_audio"  -> [ret |-> "None",  wrote |-> FALSE]
      [] resp = "text_base64"    -> [ret |-> "True",  wrote |-> TRUE]
      [] resp = "text_raw"       -> [ret |-> "True",  wrote |-> TRUE]

\* Python truth value of what generate_audio returned
Truthy(ret) == ret = "True"

\* ------------------------------------------------------------------------
\* src/script.py: process_sentence_batch, one thread per batch
\* ------------------------------------------------------------------------
SentencesBatch(w) == batches[w][2]

\* success = api_client.generate_audio(sentence, sentence_num)
\* batch_results.append((sentence_num, success, sentence))
WGen(w) ==
    /\ mp_pc = "run"
    /\ w_pc[w] = "gen"
    /\ \E resp \in Responses :
         LET item == SentencesBatch(w)[w_idx[w]]
             r == GenerateAudio(resp)
         IN  /\ w_success' = [w_success EXCEPT ![w] = r.ret]
             /\ batch_results' =
                    [batch_results EXCEPT ![w] = Append(@, <<item[1], r.ret, item[2]>>)]
             /\ api_writes' =
                    IF r.wrote
                    THEN api_writes \cup {[w |-> w, dir |-> DOWNLOAD_DIR,
                                           name |-> SentenceFileName(item[1]),
                                           num |-> item[1]]}
                    ELSE api_writes
    /\ w_pc' = [w_pc EXCEPT ![w] = "lock"]
    /\ UNCHANGED <<excel_vars, main_vars, ga_vars, rc_vars>>
    /\ UNCHANGED <<excel_ok, column, mp_pc, sentences, batches, split_i, global_stats,
                   progress_lock, w_idx, collected, successful_count, failed_sentences>>

\* with progress_lock: (entry)
WAcquire(w) ==
    /\ mp_pc = "run"
    /\ w_pc[w] = "lock"
    /\ progress_lock = 0
    /\ progress_lock' = w
    /\ w_pc' = [w_pc EXCEPT ![w] = "update"]
    /\ UNCHANGED <<excel_vars, main_vars, ga_vars, rc_vars>>
    /\ UNCHANGED <<excel_ok, column, mp_pc, sentences, batches, split_i, global_stats,
                   w_idx, w_success, batch_results, api_writes, collected,
                   successful_count, failed_sentences>>

\* the body of "with progress_lock", its exit, time.sleep(REQUEST_DELAY) and
\* the step to the next sentence of the batch
WUpdate(w) ==
    /\ mp_pc = "run"
    /\ w_pc[w] = "update"
    /\ progress_lock = w
    /\ global_stats' =
          IF Truthy(w_success[w])
          THEN [global_stats EXCEPT !.completed = @ + 1]
          ELSE [global_stats EXCEPT !.failed = @ + 1]
    /\ progress_lock' = 0
    /\ IF w_idx[w] < Len(SentencesBatch(w))
       THEN /\ w_idx' = [w_idx EXCEPT ![w] = @ + 1]
            /\ w_pc' = [w_pc EXCEPT ![w] = "gen"]
       ELSE /\ w_idx' = w_idx
            /\ w_pc' = [w_pc EXCEPT ![w] = "done"]
    /\ UNCHANGED <<excel_vars, main_vars, ga_vars, rc_vars>>
    /\ UNCHANGED <<excel_ok, column, mp_pc, sentences, batches, split_i, w_success,
                   batch_results, api_writes, collected, successful_count,
                   failed_sentences>>

\* ------------------------------------------------------------------------
\* src/script.py: main_parallel
\* ------------------------------------------------------------------------
\* df = pd.read_excel(...); sentences = df.iloc[:, 0].dropna().tolist()
ReadExcel ==
    /\ mp_pc = "read"
    /\ IF excel_ok
       THEN /\ sentences' = Dropna(column)
            /\ global_stats' = [global_stats EXCEPT !.total = Len(Dropna(column))]
            /\ mp_pc' = "split"
       ELSE \* except Exception: print(...); return
            /\ mp_pc' = "returned_early"
            /\ UNCHANGED <<sentences, global_stats>>
    /\ UNCHANGED <<excel_vars, main_vars, ga_vars, rc_vars>>
    /\ UNCHANGED <<excel_ok, column, batches, split_i, progress_lock, w_pc, w_idx,
                   w_success, batch_results, api_writes, collected, successful_count,
                   failed_sentences>>

\* executor.submit(process_sentence_batch, batch) for every batch: each of
\* the MAX_WORKERS pool threads starts on its batch
Launch ==
    /\ mp_pc = "split"
    /\ split_i = MAX_WORKERS
    /\ mp_pc' = "run"
    /\ w_pc' = [w \in Workers |-> IF Len(batches[w][2]) > 0 THEN "gen" ELSE "done"]
    /\ w_idx' = [w \in Workers |-> 1]
    /\ UNCHANGED <<excel_vars, main_vars, ga_vars, rc_vars>>
    /\ UNCHANGED <<excel_ok, column, sentences, batches, split_i, global_stats,
                   progress_lock, w_success, batch_results, api_writes, collected,
                   successful_count, failed_sentences>>

RECURSIVE Aggregate(_, _, _, _)
\* for sentence_num, success, sentence in batch_results: ... , from entry k on.
\* sentence[:50] raises TypeError when the sentence is not a str; the
\* exception leaves the loop and is caught by "except Exception as exc".
Aggregate(brs, k, sc, fs) ==
    IF k > Len(brs) THEN [sc |-> sc, fs |-> fs, exc |-> FALSE]
    ELSE IF Truthy(brs[k][2]) THEN Aggregate(brs, k + 1, sc + 1, fs)
    ELSE IF brs[k][3].kind # "str" THEN [sc |-> sc, fs |-> fs, exc |-> TRUE]
    ELSE Aggregate(brs, k + 1, sc,
                   Append(fs, <<brs[k][1], Prefix(brs[k][3].val, 50)>>))

\* one iteration of "for future in as_completed(future_to_worker)"
Collect(w) ==
    /\ mp_pc = "run"
    /\ w_pc[w] = "done"
    /\ w \notin collected
    /\ LET a == Aggregate(batch_results[w], 1, successful_count, failed_sentences)
       IN  /\ successful_count' = a.sc
           /\ failed_sentences' = a.fs
    /\ collected' = collected \cup {w}
    /\ UNCHANGED <<excel_vars, main_vars, ga_vars, rc_vars>>
    /\ UNCHANGED <<excel_ok, column, mp_pc, sentences, batches, split_i, global_stats,
                   progress_lock, w_pc, w_idx, w_success, batch_results, api_writes>>

\* the final results: successful_count / len(sentences) raises
\* ZeroDivisionError when there are no sentences
Summary ==
    /\ mp_pc = "run"
    /\ collected = Workers
    /\ mp_pc' = IF Len(sentences) = 0 THEN "raised" ELSE "returned"
    /\ UNCHANGED <<excel_vars, main_vars, ga_vars, rc_vars>>
    /\ UNCHANGED <<excel_ok, column, sentences, batches, split_i, global_stats,
                   progress_lock, w_pc, w_idx, w_success, batch_results, api_writes,
                   collected, successful_count, failed_sentences>>

\* the cells a spreadsheet column is drawn from
ApiCells ==
    {NaNCell, TextCell(<<" ">>), TextCell(<<"a">>), NumCell(<<"7">>)}

InitApi ==
    /\ excel_ok \in BOOLEAN
    /\ column \in (IF excel_ok THEN SeqsUpTo(ApiCells, MaxCells) ELSE {<<>>})
    /\ mp_pc = "read"
    /\ sentences = <<>>
    /\ batches = <<>>
    /\ split_i = 0
    /\ global_stats = [completed |-> 0, failed |-> 0, total |-> 0]
    /\ ApiIdle
    /\ ExcelIdle
    /\ MainIdle
    /\ GaIdle
    /\ RcIdle

NextApi ==
    \/ ReadExcel
    \/ SplitStep
    \/ Launch
    \/ \E w \in Workers : WGen(w) \/ WAcquire(w) \/ WUpdate(w)
    \/ \E w \in Workers : Collect(w)
    \/ Summary

SpecApi == InitApi /\ [][NextApi]_vars

\* main_parallel on a spreadsheet of plain text sentences, at least one per
\* worker, so that all MAX_WORKERS threads run at once.
InitApiPar ==
    /\ excel_ok = TRUE
    /\ \E n \in MAX_WORKERS..(MAX_WORKERS + MaxExtra) :
          column = [k \in 1..n |-> TextCell(<<"a">>)]
    /\ mp_pc = "read"
    /\ sentences = <<>>
    /\ batches = <<>>
    /\ split_i = 0
    /\ global_stats = [completed |-> 0, failed |-> 0, total |-> 0]
    /\ ApiIdle
    /\ ExcelIdle
    /\ MainIdle
    /\ GaIdle
    /\ RcIdle

SpecApiPar == InitApiPar /\ [][NextApi]_vars

\* ------------------------------------------------------------------------
\* src/main.py: the worker directory and the browser that downloads into it
\* ------------------------------------------------------------------------
Names(files) == {f.name : f \in files}

CrDownload == <<".","c","r","d","o","w","n","l","o","a","d">>

\* The names the site may give a download: one with an extension (in upper
\* case, and not the pattern's) and one without extension.
DownloadNames ==
    {<<"a",".","W","A","V">>, <<"b">>}

\* The browser starts writing a requested download: a file carrying the
\* in-progress suffix appears in the download directory.  The browser never
\* reuses the name of a file that is there.
BrowserBegin(j) ==
    /\ pe_pc \in {"row", "load", "type", "voice", "convert", "download", "snapshot",
                  "poll", "rename", "move", "except"}
    /\ j \in inflight
    /\ j.phase = "requested"
    /\ \E nm \in DownloadNames :
         /\ nm \notin Names(wdir)
         /\ (nm \o CrDownload) \notin Names(wdir)
         /\ inflight' = (inflight \ {j}) \cup {[j EXCEPT !.phase = "partial", !.name = nm]}
         /\ wdir' = wdir \cup {[name |-> nm \o CrDownload, mtime |-> fs_clock, src |-> j.row]}
    /\ UNCHANGED <<pe_cells, pe_pc, row_idx, df_out, fs_clock, observed, elapsed,
                   downloaded, target_path, log_errors, fault_rows, timeouts, visited,
                   shard_error, out_excel, detected>>
    /\ UNCHANGED <<api_vars, main_vars, ga_vars, rc_vars>>

\* The browser finishes a download: the in-progress file is renamed to its
\* final name.
BrowserComplete(j) ==
    /\ pe_pc \in {"row", "load", "type", "voice", "convert", "download", "snapshot",
                  "poll", "rename", "move", "except"}
    /\ j \in inflight
    /\ j.phase = "partial"
    /\ inflight' = inflight \ {j}
    /\ wdir' = {f \in wdir : f.name # j.name \o CrDownload}
                 \cup {[name |-> j.name, mtime |-> fs_clock + 1, src |-> j.row]}
    /\ fs_clock' = fs_clock + 1
    /\ UNCHANGED <<pe_cells, pe_pc, row_idx, df_out, observed, elapsed, downloaded,
                   target_path, log_errors, fault_rows, timeouts, visited, shard_error,
                   out_excel, detected>>
    /\ UNCHANGED <<api_vars, main_vars, ga_vars, rc_vars>>

\* ------------------------------------------------------------------------
\* src/main.py: wait_for_file
\* ------------------------------------------------------------------------
\* [f for f in current - observed if not f.endswith(".crdownload")]
NewFiles(current, obs) ==
    {f \in current : f.name \notin obs /\ ~EndsWith(f.name, CrDownload)}

AnyNewFile(files) == files

\* max(new_files, key=os.path.getmtime): the files max may return
Newest(files) == {f \in files : \A g \in files : g.mtime <= f.mtime}

SleepTakesNoTime(e) == e

\* time.time() - start, in whole seconds, after another time.sleep(1)
AfterSleep(e) == e + 1

\* start = time.time(); observed = set(glob.glob(...))
WaitSnapshot ==
    /\ pe_pc = "snapshot"
    /\ observed' = Names(wdir)
    /\ elapsed' = 0
    /\ pe_pc' = "poll"
    /\ UNCHANGED <<pe_cells, row_idx, df_out, wdir, fs_clock, inflight, downloaded,
                   target_path, log_errors, fault_rows, timeouts, visited, shard_error,
                   out_excel, detected>>
    /\ UNCHANGED <<api_vars, main_vars, ga_vars, rc_vars>>

\* one iteration of the while loop: time.sleep(1), list the directory,
\* return the newest new file if there is one (the locals of wait_for_file
\* end with the call)
WaitPoll ==
    /\ pe_pc = "poll"
    /\ elapsed < DOWNLOAD_APPEAR_TIMEOUT
    /\ IF NewFiles(wdir, observed) # {}
       THEN \E f \in Newest(NewFiles(wdir, observed)) :
              /\ downloaded' = f.name
              /\ detected' = [detected EXCEPT ![row_idx + 1] = f.name]
              /\ pe_pc' = "rename"
              /\ elapsed' = 0
              /\ observed' = {}
       ELSE /\ elapsed' = AfterSleep(elapsed)
            /\ UNCHANGED <<downloaded, detected, pe_pc, observed>>
    /\ UNCHANGED <<pe_cells, row_idx, df_out, wdir, fs_clock, inflight,
                   target_path, log_errors, fault_rows, timeouts, visited, shard_error,
                   out_excel>>
    /\ UNCHANGED <<api_vars, main_vars, ga_vars, rc_vars>>

\* raise TimeoutError("Download file did not appear in time")
WaitTimeout ==
    /\ pe_pc = "poll"
    /\ ~(elapsed < DOWNLOAD_APPEAR_TIMEOUT)
    /\ fault_rows' = fault_rows \cup {row_idx + 1}
    /\ timeouts' = timeouts \cup {row_idx + 1}
    /\ pe_pc' = "except"
    /\ elapsed' = 0
    /\ observed' = {}
    /\ UNCHANGED <<pe_cells, row_idx, df_out, wdir, fs_clock, inflight,
                   downloaded, target_path, log_errors, visited, shard_error,
                   out_excel, detected>>
    /\ UNCHANGED <<api_vars, main_vars, ga_vars, rc_vars>>

\* ------------------------------------------------------------------------
\* src/main.py: process_excel
\* ------------------------------------------------------------------------
\* the worker whose process_excel is followed, and its shard file<i>.xlsx
WorkerId == 1

\* Path(excel_path).stem
ExcelStem(worker) == <<"f","i","l","e">> \o DecStr(worker)

DotMp3 == <<".","m","p","3">>

\* FILENAME_PATTERN.format(sheet=..., row=...): "{sheet}_row{row:04d}.mp3"
TargetName(sheet, row) == sheet \o <<"_","r","o","w">> \o Fmt04d(row) \o DotMp3

\* ext = os.path.splitext(downloaded)[1].lower() or ".mp3"
DetectedExt(dl) ==
    LET e == Lower(SplitExt(dl)[2]) IN IF e = <<>> THEN DotMp3 ELSE e

TargetKeepsMp3(dl, target) == target

\* if ext != splitext(target_path)[1].lower(): target_path = root + ext
TargetWithExt(dl, target) ==
    IF DetectedExt(dl) # Lower(SplitExt(target)[2])
    THEN SplitExt(target)[1] \o DetectedExt(dl)
    ELSE target

\* f"{base_no_ext} ({i}){ext_only}"
Suffixed(base_no_ext, i, ext_only) ==
    base_no_ext \o <<" ", "(">> \o DecStr(i) \o <<")">> \o ext_only

RECURSIVE FreePathFrom(_, _, _, _, _)
\* while os.path.exists(target_path): target_path = ...; i += 1
FreePathFrom(cand, base_no_ext, ext_only, i, existing) ==
    IF cand \in existing
    THEN FreePathFrom(Suffixed(base_no_ext, i, ext_only), base_no_ext, ext_only,
                      i + 1, existing)
    ELSE cand

FreePathNoLoop(target, existing) == target

\* i = 1; base_no_ext, ext_only = splitext(target_path); the while loop
FreePath(target, existing) ==
    FreePathFrom(target, SplitExt(target)[1], SplitExt(target)[2], 1, existing)

\* pd.isna(text) or str(text).strip() == ""
SkipRow(cell) == IsNa(cell) \/ Strip(cell.val) = <<>>

NRows == Len(pe_cells)

\* an exception raised inside the row's try block
RaiseInRow ==
    /\ fault_rows' = fault_rows \cup {row_idx + 1}
    /\ pe_pc' = "except"

PeFrame ==
    UNCHANGED <<pe_cells, row_idx, df_out, wdir, fs_clock, inflight, observed, elapsed,
                downloaded, target_path, log_errors, timeouts, visited, shard_error,
                out_excel, detected>>

\* df = pd.read_excel(excel_path); the output column is inserted, empty
PeRead ==
    /\ pe_pc = "read"
    /\ \/ /\ pe_pc' = "setup"
          /\ df_out' = [r \in 1..NRows |-> TextCell(<<>>)]
          /\ detected' = [r \in 1..NRows |-> <<>>]
          /\ UNCHANGED shard_error
       \/ /\ pe_pc' = "raised"
          /\ shard_error' = "read"
          /\ UNCHANGED <<df_out, detected>>
    /\ UNCHANGED <<pe_cells, row_idx, wdir, fs_clock, inflight, observed, elapsed,
                   downloaded, target_path, log_errors, fault_rows, timeouts, visited, out_excel>>
    /\ UNCHANGED <<api_vars, main_vars, ga_vars, rc_vars>>

\* driver = setup_driver(worker_dir)
PeSetup ==
    /\ pe_pc = "setup"
    /\ \/ pe_pc' = "open" /\ UNCHANGED shard_error
       \/ pe_pc' = "raised" /\ shard_error' = "setup"
    /\ UNCHANGED <<pe_cells, row_idx, df_out, wdir, fs_clock, inflight, observed, elapsed,
                   downloaded, target_path, log_errors, fault_rows, timeouts, visited, out_excel,
                   detected>>
    /\ UNCHANGED <<api_vars, main_vars, ga_vars, rc_vars>>

\* driver.get(TTS_URL); wait for the textarea, before the row loop
PeOpen ==
    /\ pe_pc = "open"
    /\ \/ pe_pc' = "row" /\ UNCHANGED shard_error
       \/ pe_pc' = "quit" /\ shard_error' = "open"
    /\ UNCHANGED <<pe_cells, row_idx, df_out, wdir, fs_clock, inflight, observed, elapsed,
                   downloaded, target_path, log_errors, fault_rows, timeouts, visited, out_excel,
                   detected>>
    /\ UNCHANGED <<api_vars, main_vars, ga_vars, rc_vars>>

\* for row_idx in range(len(df)): the blank test and "continue"
PeRowHead ==
    /\ pe_pc = "row"
    /\ IF row_idx < NRows
       THEN /\ visited' = Append(visited, row_idx + 1)
            /\ IF SkipRow(pe_cells[row_idx + 1])
               THEN row_idx' = row_idx + 1 /\ UNCHANGED pe_pc
               ELSE pe_pc' = "load" /\ UNCHANGED row_idx
       ELSE /\ pe_pc' = "quit"
            /\ UNCHANGED <<visited, row_idx>>
    /\ UNCHANGED <<pe_cells, df_out, wdir, fs_clock, inflight, observed, elapsed,
                   downloaded, target_path, log_errors, fault_rows, timeouts, shard_error,
                   out_excel, detected>>
    /\ UNCHANGED <<api_vars, main_vars, ga_vars, rc_vars>>

\* driver.get(TTS_URL); wait for the textarea
PeLoad ==
    /\ pe_pc = "load"
    /\ \/ pe_pc' = "type" /\ UNCHANGED fault_rows
       \/ RaiseInRow
    /\ PeFrame
    /\ UNCHANGED <<api_vars, main_vars, ga_vars, rc_vars>>

\* textarea.clear(); textarea.send_keys(str(text))
PeType ==
    /\ pe_pc = "type"
    /\ \/ pe_pc' = "voice" /\ UNCHANGED fault_rows
       \/ RaiseInRow
    /\ PeFrame
    /\ UNCHANGED <<api_vars, main_vars, ga_vars, rc_vars>>

\* click_by_text "mohan", "shruti": a failure is logged as a warning only
PeVoice ==
    /\ pe_pc = "voice"
    /\ pe_pc' = "convert"
    /\ UNCHANGED fault_rows
    /\ PeFrame
    /\ UNCHANGED <<api_vars, main_vars, ga_vars, rc_vars>>

\* click_with_fallback on the convert control
PeConvert ==
    /\ pe_pc = "convert"
    /\ \/ pe_pc' = "download" /\ UNCHANGED fault_rows
       \/ RaiseInRow
    /\ PeFrame
    /\ UNCHANGED <<api_vars, main_vars, ga_vars, rc_vars>>

\* wait for the download control and click it: the browser is asked for
\* the row's file
PeDownloadClick ==
    /\ pe_pc = "download"
    /\ \/ /\ pe_pc' = "snapshot"
          /\ inflight' = inflight \cup
                {[row |-> row_idx + 1, phase |-> "requested", name |-> <<>>]}
          /\ UNCHANGED fault_rows
       \/ RaiseInRow /\ UNCHANGED inflight
    /\ UNCHANGED <<pe_cells, row_idx, df_out, wdir, fs_clock, observed, elapsed,
                   downloaded, target_path, log_errors, timeouts, visited, shard_error,
                   out_excel, detected>>
    /\ UNCHANGED <<api_vars, main_vars, ga_vars, rc_vars>>

\* target_name, target_path, the extension and the collision loop
PeChooseTarget ==
    /\ pe_pc = "rename"
    /\ \E target \in {TargetWithExt(downloaded,
                                     TargetName(ExcelStem(WorkerId), row_idx + 1))} :
          target_path' = FreePath(target, Names(wdir))
    /\ pe_pc' = "move"
    /\ UNCHANGED <<pe_cells, row_idx, df_out, wdir, fs_clock, inflight, observed, elapsed,
                   downloaded, log_errors, fault_rows, timeouts, visited, shard_error, out_excel,
                   detected>>
    /\ UNCHANGED <<api_vars, main_vars, ga_vars, rc_vars>>

\* shutil.move(downloaded, target_path); df.iloc[row_idx, out_col_index] = ...
PeMove ==
    /\ pe_pc = "move"
    /\ \/ /\ wdir' = {IF f.name = downloaded THEN [f EXCEPT !.name = target_path] ELSE f
                        : f \in {g \in wdir : g.name # target_path}}
          /\ df_out' = [df_out EXCEPT ![row_idx + 1] = TextCell(target_path)]
          /\ row_idx' = row_idx + 1
          /\ pe_pc' = "row"
          /\ downloaded' = <<>>
          /\ target_path' = <<>>
          /\ UNCHANGED fault_rows
       \/ /\ RaiseInRow
          /\ UNCHANGED <<wdir, df_out, row_idx, downloaded, target_path>>
    /\ UNCHANGED <<pe_cells, fs_clock, inflight, observed, elapsed, log_errors,
                   timeouts, visited, shard_error, out_excel, detected>>
    /\ UNCHANGED <<api_vars, main_vars, ga_vars, rc_vars>>

ExceptReraises ==
    /\ pe_pc = "except"
    /\ pe_pc' = "quit"
    /\ shard_error' = "row"
    /\ UNCHANGED <<pe_cells, row_idx, df_out, wdir, fs_clock, inflight, observed, elapsed,
                   downloaded, target_path, log_errors, fault_rows, timeouts, visited, out_excel,
                   detected>>
    /\ UNCHANGED <<api_vars, main_vars, ga_vars, rc_vars>>

ExceptRetriesRow ==
    /\ pe_pc = "except"
    /\ log_errors' = log_errors \cup {row_idx + 1}
    /\ pe_pc' = "row"
    /\ UNCHANGED <<pe_cells, row_idx, df_out, wdir, fs_clock, inflight, observed, elapsed,
                   downloaded, target_path, fault_rows, timeouts, visited, shard_error,
                   out_excel, detected>>
    /\ UNCHANGED <<api_vars, main_vars, ga_vars, rc_vars>>

\* except Exception as e: logger.error(...); the loop goes on
PeExcept ==
    /\ pe_pc = "except"
    /\ log_errors' = log_errors \cup {row_idx + 1}
    /\ row_idx' = row_idx + 1
    /\ pe_pc' = "row"
    /\ downloaded' = <<>>
    /\ target_path' = <<>>
    /\ UNCHANGED <<pe_cells, df_out, wdir, fs_clock, inflight, observed, elapsed,
                   fault_rows, timeouts, visited, shard_error, out_excel, detected>>
    /\ UNCHANGED <<api_vars, main_vars, ga_vars, rc_vars>>

\* finally: driver.quit(); an exception of the try block goes on to the caller
PeQuit ==
    /\ pe_pc = "quit"
    /\ IF shard_error # "none"
       THEN pe_pc' = "raised" /\ UNCHANGED shard_error
       ELSE \/ pe_pc' = "write" /\ UNCHANGED shard_error
            \/ pe_pc' = "raised" /\ shard_error' = "quit"
    /\ inflight' = {}
    /\ UNCHANGED <<pe_cells, row_idx, df_out, wdir, fs_clock, observed, elapsed,
                   downloaded, target_path, log_errors, fault_rows, timeouts, visited, out_excel,
                   detected>>
    /\ UNCHANGED <<api_vars, main_vars, ga_vars, rc_vars>>

\* df.to_excel(out_excel, ...); return out_excel, worker_dir
PeWrite ==
    /\ pe_pc = "write"
    /\ \/ /\ out_excel' = [written |-> TRUE,
                          rows |-> [r \in 1..NRows |-> <<pe_cells[r], df_out[r]>>]]
          /\ pe_pc' = "returned"
          /\ UNCHANGED shard_error
       \/ /\ pe_pc' = "raised"
          /\ shard_error' = "write"
          /\ UNCHANGED out_excel
    /\ UNCHANGED <<pe_cells, row_idx, df_out, wdir, fs_clock, inflight, observed, elapsed,
                   downloaded, target_path, log_errors, fault_rows, timeouts, visited, detected>>
    /\ UNCHANGED <<api_vars, main_vars, ga_vars, rc_vars>>

\* the cells the text column of a shard is drawn from
ExcelCells == {NaNCell, TextCell(<<" ">>), TextCell(<<"a">>)}

\* the outputs that k earlier runs over the same shard left behind
PriorFiles(n, k) ==
    {[name |-> (IF j = 0 THEN TargetName(ExcelStem(WorkerId), r)
                ELSE Suffixed(SplitExt(TargetName(ExcelStem(WorkerId), r))[1], j, DotMp3)),
      mtime |-> 0, src |-> 0] : r \in 1..n, j \in 0..(k - 1)}

ApiOff ==
    /\ excel_ok = TRUE
    /\ column = <<>>
    /\ mp_pc = "idle"
    /\ sentences = <<>>
    /\ batches = <<>>
    /\ split_i = 0
    /\ global_stats = [completed |-> 0, failed |-> 0, total |-> 0]
    /\ ApiIdle

InitExcel ==
    /\ pe_cells \in SeqsUpTo(ExcelCells, MaxRows)
    /\ \E k \in 0..MaxPrior : wdir = PriorFiles(Len(pe_cells), k)
    /\ pe_pc = "read"
    /\ row_idx = 0
    /\ df_out = <<>>
    /\ fs_clock = 0
    /\ inflight = {}
    /\ observed = {}
    /\ elapsed = 0
    /\ downloaded = <<>>
    /\ target_path = <<>>
    /\ log_errors = {}
    /\ fault_rows = {}
    /\ timeouts = {}
    /\ visited = <<>>
    /\ shard_error = "none"
    /\ out_excel = [written |-> FALSE, rows |-> <<>>]
    /\ detected = <<>>
    /\ ApiOff
    /\ MainIdle
    /\ GaIdle
    /\ RcIdle

WorkerStep ==
    \/ PeRead \/ PeSetup \/ PeOpen \/ PeRowHead \/ PeLoad \/ PeType \/ PeVoice
    \/ PeConvert \/ PeDownloadClick \/ WaitSnapshot \/ WaitPoll \/ WaitTimeout
    \/ PeChooseTarget \/ PeMove \/ PeExcept \/ PeQuit \/ PeWrite

BrowserStep == \E j \in inflight : BrowserBegin(j) \/ BrowserComplete(j)

NextExcel == WorkerStep \/ BrowserStep

SpecExcel == InitExcel /\ [][NextExcel]_vars

\* The worker thread keeps running whenever it has a step to take; the
\* browser and the site owe nothing.
SpecExcelFair == SpecExcel /\ WF_vars(WorkerStep)

\* ------------------------------------------------------------------------
\* src/main.py: main, five process_excel calls in a thread pool
\* ------------------------------------------------------------------------
\* EXCEL_FILES[w - 1], without its directory: f"file{i}.xlsx"
ExcelFile(w) == <<"f","i","l","e">> \o DecStr(w) \o <<".","x","l","s","x">>

OUTPUT_SUFFIX == <<"_","w","i","t","h","_","f","i","l","e","n","a","m","e","s",
                   ".","x","l","s","x">>

OutExcelInPlace(path) == path

\* Path(excel_path).with_name(Path(excel_path).stem + OUTPUT_SUFFIX); the stem
\* is the name without its last suffix
OutExcelName(path) == SplitExt(path)[1] \o OUTPUT_SUFFIX

\* the disk after a file named p was written with content c
FsWrite(fs, p, c) == [q \in (DOMAIN fs) \cup {p} |-> IF q = p THEN c ELSE fs[q]]

\* one iteration of "for p in EXCEL_FILES": a missing input is replaced by an
\* empty template; a failure to create it is logged and the loop goes on
MainTemplate ==
    /\ m_pc = "templates"
    /\ tpl_i < NumShards
    /\ tpl_i' = tpl_i + 1
    /\ IF xl_exists[tpl_i + 1]
       THEN UNCHANGED <<xl_exists, xl_fs>>
       ELSE \/ /\ xl_exists' = [xl_exists EXCEPT ![tpl_i + 1] = TRUE]
               /\ xl_fs' = FsWrite(xl_fs, ExcelFile(tpl_i + 1),
                                   [kind |-> "input", shard |-> tpl_i + 1])
            \/ UNCHANGED <<xl_exists, xl_fs>>
    /\ UNCHANGED <<m_pc, f_pc, results>>
    /\ UNCHANGED <<api_vars, excel_vars, ga_vars, rc_vars>>

\* exe.submit(process_excel, path, i+1) for each of EXCEL_FILES
MainSubmit ==
    /\ m_pc = "templates"
    /\ tpl_i = NumShards
    /\ m_pc' = "collect"
    /\ f_pc' = [w \in Shards |-> "read"]
    /\ UNCHANGED <<tpl_i, xl_exists, xl_fs, results>>
    /\ UNCHANGED <<api_vars, excel_vars, ga_vars, rc_vars>>

\* the exception leaves shard w's call and is kept by its future
FRaise(w) == f_pc' = [f_pc EXCEPT ![w] = "raised"]

FGoto(w, pos) == f_pc' = [f_pc EXCEPT ![w] = pos]

\* process_excel of shard w: makedirs, pd.read_excel, df.insert
FRead(w) ==
    /\ f_pc[w] = "read"
    /\ IF xl_exists[w]
       THEN FGoto(w, "setup") \/ FRaise(w)
       ELSE FRaise(w)
    /\ UNCHANGED <<m_pc, tpl_i, xl_exists, xl_fs, results>>
    /\ UNCHANGED <<api_vars, excel_vars, ga_vars, rc_vars>>

\* process_excel of shard w: setup_driver
FSetup(w) ==
    /\ f_pc[w] = "setup"
    /\ FGoto(w, "session") \/ FRaise(w)
    /\ UNCHANGED <<m_pc, tpl_i, xl_exists, xl_fs, results>>
    /\ UNCHANGED <<api_vars, excel_vars, ga_vars, rc_vars>>

\* process_excel of shard w: the try block and its finally. The page load
\* may raise; the row loop catches what its rows raise.
FSession(w) ==
    /\ f_pc[w] = "session"
    /\ FGoto(w, "write") \/ FRaise(w)
    /\ UNCHANGED <<m_pc, tpl_i, xl_exists, xl_fs, results>>
    /\ UNCHANGED <<api_vars, excel_vars, ga_vars, rc_vars>>

\* process_excel of shard w: df.to_excel and return
FWrite(w) ==
    /\ f_pc[w] = "write"
    /\ \/ /\ FGoto(w, "returned")
          /\ xl_fs' = FsWrite(xl_fs, OutExcelName(ExcelFile(w)),
                              [kind |-> "output", shard |-> w])
       \/ FRaise(w) /\ UNCHANGED xl_fs
    /\ UNCHANGED <<m_pc, tpl_i, xl_exists, results>>
    /\ UNCHANGED <<api_vars, excel_vars, ga_vars, rc_vars>>

\* the shards whose future as_completed has yielded
Yielded == {results[k].src : k \in DOMAIN results}

FDone(w) == f_pc[w] \in {"returned", "raised"}

MainCollectNoCatch(w) ==
    /\ m_pc = "collect"
    /\ FDone(w)
    /\ w \notin Yielded
    /\ IF f_pc[w] = "returned"
       THEN /\ results' = Append(results, [src |-> w, out_excel |-> w, status |-> "OK"])
            /\ UNCHANGED m_pc
       ELSE /\ m_pc' = "raised"
            /\ UNCHANGED results
    /\ UNCHANGED <<tpl_i, xl_exists, xl_fs, f_pc>>
    /\ UNCHANGED <<api_vars, excel_vars, ga_vars, rc_vars>>

\* one iteration of "for fut in as_completed(fut_to_excel)": fut.result()
\* inside try/except Exception
MainCollect(w) ==
    /\ m_pc = "collect"
    /\ FDone(w)
    /\ w \notin Yielded
    /\ results' = Append(results,
                         IF f_pc[w] = "returned"
                         THEN [src |-> w, out_excel |-> w, status |-> "OK"]
                         ELSE [src |-> w, out_excel |-> 0, status |-> "ERROR"])
    /\ UNCHANGED <<m_pc, tpl_i, xl_exists, xl_fs, f_pc>>
    /\ UNCHANGED <<api_vars, excel_vars, ga_vars, rc_vars>>

\* as_completed is exhausted, the pool shuts down, the summary is printed
MainSummary ==
    /\ m_pc = "collect"
    /\ Yielded = Shards
    /\ m_pc' = "returned"
    /\ UNCHANGED <<tpl_i, xl_exists, xl_fs, f_pc, results>>
    /\ UNCHANGED <<api_vars, excel_vars, ga_vars, rc_vars>>

InitMain ==
    /\ m_pc = "templates"
    /\ tpl_i = 0
    /\ xl_exists \in [Shards -> BOOLEAN]
    /\ xl_fs = [p \in {ExcelFile(w) : w \in {v \in Shards : xl_exists[v]}} |->
                   [kind |-> "input", shard |-> CHOOSE w \in Shards : ExcelFile(w) = p]]
    /\ f_pc = [w \in Shards |-> "none"]
    /\ results = <<>>
    /\ ApiOff
    /\ ExcelIdle
    /\ GaIdle
    /\ RcIdle

FStep(w) == FRead(w) \/ FSetup(w) \/ FSession(w) \/ FWrite(w)

MainStep == MainTemplate \/ MainSubmit \/ (\E w \in Shards : MainCollect(w)) \/ MainSummary

NextMain == MainStep \/ \E w \in Shards : FStep(w)

SpecMain == InitMain /\ [][NextMain]_vars

\* The program does not stop while one of its threads can take a step.
SpecMainFair == SpecMain /\ WF_vars(NextMain)

\* ------------------------------------------------------------------------
\* src/script.py: MicMonsterAPI.generate_audio, one call step by step
\* ------------------------------------------------------------------------
\* how response.json() fares on the body: "none" when the body is no JSON,
\* otherwise what was parsed: an object whose audioContent is valid base64
\* or is not, an object without audioContent, or a number
JsonKinds == {"none", "audio_ok", "audio_bad", "no_audio", "scalar"}

\* What session.post does: it raises, or gives a response with a status
\* code, a body that is blank or not, that parses as JSON or not, and that
\* as a whole is valid base64 or not.
GaResponses ==
    {r \in [raises : BOOLEAN, status : {200, 500}, empty : BOOLEAN,
            json : JsonKinds, b64 : BOOLEAN] :
        /\ r.raises => (r.status = 500 /\ r.empty)
        /\ r.empty => (r.json = "none" /\ ~r.b64)}

GaFrame == UNCHANGED <<api_vars, excel_vars, main_vars, rc_vars>>

\* return value
GaReturn(v) ==
    /\ ga_ret' = v
    /\ ga_pc' = "done"

\* with open(filepath, 'wb') as f: f.write(...)
GaWrite(data) ==
    ga_dir' = FsWrite(ga_dir, SentenceFileName(ga_num), [by |-> "call", data |-> data])

\* response = self.session.post(...); an exception goes to "except Exception"
GaPost ==
    /\ ga_pc = "post"
    /\ IF ga_resp.raises THEN GaReturn("False")
       ELSE ga_pc' = "status" /\ UNCHANGED ga_ret
    /\ UNCHANGED <<ga_num, ga_resp, ga_tried, ga_dir, ga_prior>>
    /\ GaFrame

\* if response.status_code == 200: ... else: return False
GaStatus ==
    /\ ga_pc = "status"
    /\ IF ga_resp.status = 200 THEN ga_pc' = "body" /\ UNCHANGED ga_ret
       ELSE GaReturn("False")
    /\ UNCHANGED <<ga_num, ga_resp, ga_tried, ga_dir, ga_prior>>
    /\ GaFrame

\* if response.text.strip(): ... else: return False
GaBody ==
    /\ ga_pc = "body"
    /\ IF ga_resp.empty THEN GaReturn("False")
       ELSE ga_pc' = "json" /\ UNCHANGED ga_ret
    /\ UNCHANGED <<ga_num, ga_resp, ga_tried, ga_dir, ga_prior>>
    /\ GaFrame

\* response_data = response.json(); JSONDecodeError leads to the handler
GaJson ==
    /\ ga_pc = "json"
    /\ ga_tried' = Append(ga_tried, "json")
    /\ ga_pc' = IF ga_resp.json = "none" THEN "b64body" ELSE "field"
    /\ UNCHANGED <<ga_num, ga_resp, ga_dir, ga_prior, ga_ret>>
    /\ GaFrame

\* if 'audioContent' in response_data: on a number the test raises TypeError,
\* caught by "except Exception"; when the test is false the try block ends
\* and so does the function, without a return statement
GaField ==
    /\ ga_pc = "field"
    /\ CASE ga_resp.json = "scalar"   -> GaReturn("False")
         [] ga_resp.json = "no_audio" -> GaReturn("None")
         [] OTHER                     -> ga_pc' = "b64field" /\ UNCHANGED ga_ret
    /\ UNCHANGED <<ga_num, ga_resp, ga_tried, ga_dir, ga_prior>>
    /\ GaFrame

\* audio_data = base64.b64decode(response_data['audioContent']); write; return
\* True.  binascii.Error is no JSONDecodeError: it goes to "except Exception"
GaB64Field ==
    /\ ga_pc = "b64field"
    /\ IF ga_resp.json = "audio_ok"
       THEN GaWrite("json_audio") /\ GaReturn("True")
       ELSE GaReturn("False") /\ UNCHANGED ga_dir
    /\ UNCHANGED <<ga_num, ga_resp, ga_tried, ga_prior>>
    /\ GaFrame

\* except json.JSONDecodeError: audio_data = base64.b64decode(response.text)
GaB64Body ==
    /\ ga_pc = "b64body"
    /\ ga_tried' = Append(ga_tried, "base64")
    /\ IF ga_resp.b64
       THEN GaWrite("body_base64") /\ GaReturn("True")
       ELSE ga_pc' = "raw" /\ UNCHANGED <<ga_dir, ga_ret>>
    /\ UNCHANGED <<ga_num, ga_resp, ga_prior>>
    /\ GaFrame

\* except Exception as decode_error: f.write(response.content); return True
GaRaw ==
    /\ ga_pc = "raw"
    /\ ga_tried' = Append(ga_tried, "raw")
    /\ GaWrite("raw")
    /\ GaReturn("True")
    /\ UNCHANGED <<ga_num, ga_resp, ga_prior>>
    /\ GaFrame

\* One call, for a sentence number 0..MaxNum (0 is test_api's), with
\* DOWNLOAD_DIR holding any of the files earlier calls have left.
InitGen ==
    /\ ga_pc = "post"
    /\ ga_num \in 0..MaxNum
    /\ ga_resp \in GaResponses
    /\ ga_tried = <<>>
    /\ ga_prior \in SUBSET {SentenceFileName(k) : k \in 0..MaxNum}
    /\ ga_dir = [q \in ga_prior |-> [by |-> "prior", data |-> "prior"]]
    /\ ga_ret = "pending"
    /\ ApiOff
    /\ ExcelIdle
    /\ MainIdle
    /\ RcIdle

NextGen ==
    \/ GaPost \/ GaStatus \/ GaBody \/ GaJson \/ GaField
    \/ GaB64Field \/ GaB64Body \/ GaRaw

SpecGen == InitGen /\ [][NextGen]_vars

\* ------------------------------------------------------------------------
\* src/main.py: the page steps of one row, from driver.get to the download
\* click: click_by_text, click_with_fallback and the download block
\* ------------------------------------------------------------------------
\* the controls the row deals with, in the order of the code
NextControl(ctl) ==
    CASE ctl = "load"     -> "type"
      [] ctl = "type"     -> "mohan"
      [] ctl = "mohan"    -> "shruti"
      [] ctl = "shruti"   -> "convert"
      [] ctl = "convert"  -> "download"
      [] ctl = "download" -> "waitfile"

\* the timeout of the WebDriverWait used for the control
WaitTimeoutOf(ctl) == IF ctl = "download" THEN CONVERT_TIMEOUT ELSE PAGE_LOAD_TIMEOUT

\* the click tiers the code has for the control: click_by_text and
\* click_with_fallback go native, scroll and native, script; the download
\* block calls el.click() alone
Tiers(ctl) == IF ctl = "download" THEN 1 ELSE 3

TierAct(t) == CASE t = 1 -> "native" [] t = 2 -> "renative" [] t = 3 -> "script"

NoFallback(ctl, sel) == "none"

\* the selector tried after sel has failed: the fallback after the primary
\* of the convert and download controls, "none" otherwise
NextSelector(ctl, sel) ==
    IF ctl \in {"convert", "download"} /\ sel = "primary" THEN "fallback" ELSE "none"

RcFrame == UNCHANGED <<api_vars, excel_vars, main_vars, ga_vars>>

RcLogged(act, ok) ==
    rc_log' = Append(rc_log, [ctl |-> rc_ctl, sel |-> rc_sel, act |-> act, ok |-> ok])

\* the row goes on to the next control
RcAdvance(ctl) ==
    /\ rc_ctl' = NextControl(ctl)
    /\ rc_step' = CASE NextControl(ctl) = "type"     -> "do"
                    [] NextControl(ctl) = "waitfile" -> "done"
                    [] OTHER                         -> "wait"
    /\ rc_sel' = IF NextControl(ctl) \in {"type", "waitfile"} THEN "none" ELSE "primary"
    /\ rc_tier' = 0
    /\ rc_waited' = 0

\* the exception reaches the row's "except Exception as e"
RcFail ==
    /\ rc_step' = "failed"
    /\ UNCHANGED <<rc_ctl, rc_sel, rc_tier>>

\* the seconds waited for the control, w, stay on the stopwatch
RcWaited(w) == rc_waited' = w

\* an exception leaves the wait or the click on the selector in use: the
\* fallback selector is waited for, or the voice option is given up with a
\* warning, or the row fails
RcAttemptFailed(w) ==
    IF NextSelector(rc_ctl, rc_sel) # "none"
    THEN /\ rc_sel' = NextSelector(rc_ctl, rc_sel)
         /\ rc_step' = "wait"
         /\ rc_tier' = 0
         /\ RcWaited(w)
         /\ UNCHANGED rc_ctl
    ELSE IF rc_ctl \in {"mohan", "shruti"}
    THEN /\ rc_ctl' = "convert"
         /\ rc_step' = "wait"
         /\ rc_sel' = "primary"
         /\ rc_tier' = 0
         /\ RcWaited(0)
    ELSE RcFail /\ RcWaited(w)

\* driver.get(TTS_URL), at the head of the row's try block
RcGet ==
    /\ rc_ctl = "load" /\ rc_step = "get"
    /\ \/ rc_step' = "wait" /\ RcLogged("get", TRUE)
       \/ rc_step' = "failed" /\ RcLogged("get", FALSE)
    /\ UNCHANGED <<rc_ctl, rc_sel, rc_tier, rc_waited>>
    /\ RcFrame

\* WebDriverWait(driver, timeout).until(...): the element is there at once
\* or at the last moment, or TimeoutException after the timeout
RcWait ==
    /\ rc_step = "wait"
    /\ \/ \E d \in {0, WaitTimeoutOf(rc_ctl)} :
             /\ RcLogged("wait", TRUE)
             /\ IF rc_ctl = "load"
                THEN RcAdvance(rc_ctl)
                ELSE /\ rc_step' = "click"
                     /\ rc_tier' = 1
                     /\ rc_waited' = rc_waited + d
                     /\ UNCHANGED <<rc_ctl, rc_sel>>
       \/ /\ RcLogged("wait", FALSE)
          /\ RcAttemptFailed(rc_waited + WaitTimeoutOf(rc_ctl))
    /\ RcFrame

\* textarea.clear(); textarea.send_keys(str(text))
RcType ==
    /\ rc_ctl = "type" /\ rc_step = "do"
    /\ \/ RcLogged("send_keys", TRUE) /\ RcAdvance(rc_ctl)
       \/ RcLogged("send_keys", FALSE) /\ RcFail /\ RcWaited(rc_waited)
    /\ RcFrame

\* el.click() at tier 1 and 2, execute_script("arguments[0].click();") at 3
RcClick ==
    /\ rc_step = "click"
    /\ \/ /\ RcLogged(TierAct(rc_tier), TRUE)
          /\ RcAdvance(rc_ctl)
       \/ /\ RcLogged(TierAct(rc_tier), FALSE)
          /\ IF rc_tier = Tiers(rc_ctl) THEN RcAttemptFailed(rc_waited)
             ELSE /\ rc_step' = (IF rc_tier = 1 THEN "scroll" ELSE "click")
                  /\ rc_tier' = rc_tier + 1
                  /\ UNCHANGED <<rc_ctl, rc_sel, rc_waited>>
    /\ RcFrame

\* execute_script("arguments[0].scrollIntoView(...)") in the first handler;
\* an exception of it leaves the click routine
RcScroll ==
    /\ rc_step = "scroll"
    /\ \/ /\ RcLogged("scroll", TRUE)
          /\ rc_step' = "click"
          /\ UNCHANGED <<rc_ctl, rc_sel, rc_tier, rc_waited>>
       \/ /\ RcLogged("scroll", FALSE)
          /\ RcAttemptFailed(rc_waited)
    /\ RcFrame

\* one text row, at the head of its try block
InitClicks ==
    /\ rc_ctl = "load"
    /\ rc_step = "get"
    /\ rc_sel = "none"
    /\ rc_tier = 0
    /\ rc_log = <<>>
    /\ rc_waited = 0
    /\ ApiOff
    /\ ExcelIdle
    /\ MainIdle
    /\ GaIdle

NextClicks == RcGet \/ RcWait \/ RcType \/ RcClick \/ RcScroll

SpecClicks == InitClicks /\ [][NextClicks]_vars

\* ------------------------------------------------------------------------
\* C6
\* ------------------------------------------------------------------------
Entry(w) == CHOOSE k \in DOMAIN results : results[k].src = w

\* a step in which the call of shard w raises
Raises(w) == f_pc[w] # "raised" /\ f_pc'[w] = "raised"

\* C6: in main, a shard-level error (spreadsheet read or write, browser start,
\* initial page load) ends only the call it happened in: the step in which one
\* call raises leaves every other call, main and results as they were; results
\* never holds two entries for one shard; a shard's entry is ERROR exactly when
\* its call raised and OK exactly when it returned; main does not raise; and
\* main always comes to return, with exactly one entry per shard and every
\* call either returned or raised.
C6_ShardErrorsStayLocal ==
    /\ [][\A w \in Shards :
             Raises(w) => /\ \A v \in Shards \ {w} : f_pc'[v] = f_pc[v]
                          /\ m_pc' = m_pc
                          /\ results' = results]_vars
    /\ [](/\ m_pc # "raised"
          /\ \A j, k \in DOMAIN results : results[j].src = results[k].src => j = k
          /\ \A k \in DOMAIN results :
                /\ (results[k].status = "ERROR") <=> (f_pc[results[k].src] = "raised")
                /\ (results[k].status = "OK") <=> (f_pc[results[k].src] = "returned")
          /\ m_pc = "returned" =>
                /\ Len(results) = NumShards
                /\ Yielded = Shards
                /\ \A w \in Shards : FDone(w))
    /\ <>(m_pc = "returned")

\* main has returned; the call of one shard raised, the other four returned
C6_Witness ==
    /\ m_pc = "returned"
    /\ \E w \in Shards :
          /\ f_pc[w] = "raised"
          /\ results[Entry(w)].status = "ERROR"
          /\ \A v \in Shards \ {w} :
                /\ f_pc[v] = "returned"
                /\ results[Entry(v)].status = "OK"

\* ------------------------------------------------------------------------
\* C1
\* ------------------------------------------------------------------------
\* the sentence numbers of batch b
BatchNums(b) == {b[2][k][1] : k \in DOMAIN b[2]}

SplitDone == split_i = MAX_WORKERS

\* C1: job splitting is exhaustive and non-overlapping for every sentence
\* count n >= 0: when the splitting loop has ended there are MAX_WORKERS
\* batches, numbered 1..5, each a contiguous run of sentence numbers carrying
\* the sentences of those numbers, pairwise disjoint, with union 1..n;
\* workers 1-4 hold n div 5 sentences each, worker 5 holds n div 5 + n mod 5.
C1_SplitPartition ==
    SplitDone =>
        LET n == Len(sentences) IN
        /\ Len(batches) = MAX_WORKERS
        /\ \A i \in 1..MAX_WORKERS :
              /\ batches[i][1] = i
              /\ \A k \in DOMAIN batches[i][2] :
                    /\ batches[i][2][k][1] = batches[i][2][1][1] + (k - 1)
                    /\ batches[i][2][k][1] \in 1..n
                    /\ batches[i][2][k][2] = sentences[batches[i][2][k][1]]
              /\ Len(batches[i][2]) =
                    IF i < MAX_WORKERS THEN n \div MAX_WORKERS
                    ELSE (n \div MAX_WORKERS) + (n % MAX_WORKERS)
        /\ \A i, j \in 1..MAX_WORKERS :
              i # j => BatchNums(batches[i]) \cap BatchNums(batches[j]) = {}
        /\ UNION {BatchNums(batches[i]) : i \in 1..MAX_WORKERS} = 1..n

\* a split of a sentence count that is neither below 5 nor divisible by 5,
\* with more than one sentence per worker
C1_Witness ==
    /\ SplitDone
    /\ Len(sentences) = 13
    /\ Len(batches[1][2]) = 2
    /\ Len(batches[MAX_WORKERS][2]) = 5


\* ------------------------------------------------------------------------
\* C3 (API variant)
\* ------------------------------------------------------------------------
\* C3: a sentence whose text is blank or whitespace-only is never submitted
\* to generate_audio and no file is written for it.
C3_BlankNeverConverted ==
    /\ \A w \in Workers : \A k \in DOMAIN batch_results[w] :
          ~IsBlank(batch_results[w][k][3])
    /\ \A a \in api_writes : ~IsBlank(sentences[a.num])

\* ------------------------------------------------------------------------
\* C2
\* ------------------------------------------------------------------------
PeEnded == pe_pc \in {"returned", "raised"}

\* the steps of process_excel outside the row loop that may raise
ShardLevelSteps == {"read", "setup", "open", "quit", "write"}

RowRecorded(r) == df_out[r].val # <<>>

\* C2: whatever rows fail during submission, wait or move, process_excel
\* reaches the rows in input order 1, 2, ...; outside the handler the rows
\* logged as failed are exactly the rows in which an exception was raised,
\* and a failed row has no file recorded; process_excel raises only when a
\* step outside the row loop raised; and when it returns every row was
\* visited, every row that is neither blank nor failed has its file
\* recorded, and the output spreadsheet is written with one line per row.
C2_RowFailuresStayLocal ==
    /\ \A i \in DOMAIN visited : visited[i] = i
    /\ pe_pc # "except" => log_errors = fault_rows
    /\ \A r \in log_errors : ~RowRecorded(r)
    /\ pe_pc = "raised" => shard_error \in ShardLevelSteps
    /\ pe_pc = "returned" =>
          /\ Len(visited) = NRows
          /\ shard_error = "none"
          /\ out_excel.written
          /\ Len(out_excel.rows) = NRows
          /\ \A r \in 1..NRows :
                RowRecorded(r) <=> (~SkipRow(pe_cells[r]) /\ r \notin fault_rows)

\* a shard of two rows that both failed, ended by a normal return
C2_Witness ==
    /\ pe_pc = "returned"
    /\ NRows = 2
    /\ fault_rows = {1, 2}
    /\ log_errors = {1, 2}
    /\ out_excel.written

\* ------------------------------------------------------------------------
\* C3 (browser variant)
\* ------------------------------------------------------------------------
\* C3, process_excel: a blank or whitespace-only row is skipped: nothing is
\* asked of the browser for it, no file stems from it, no exception is
\* raised in it and its output cell stays as inserted.
C3_BrowserBlankSkipped ==
    \A r \in DOMAIN df_out :
        IsBlank(pe_cells[r]) =>
            /\ df_out[r] = TextCell(<<>>)
            /\ \A j \in inflight : j.row # r
            /\ \A f \in wdir : f.src # r
            /\ r \notin fault_rows

\* ------------------------------------------------------------------------
\* C4
\* ------------------------------------------------------------------------
\* the path of the row before the collision loop
BaseTarget == TargetWithExt(downloaded, TargetName(ExcelStem(WorkerId), row_idx + 1))

\* C4: when process_excel is about to move the download, the target path
\* names no file of the worker directory; it is the base name when that is
\* free, and otherwise base " (k)" ext for the smallest k >= 1 that is free.
C4_TargetIsFree ==
    pe_pc = "move" =>
        LET names == Names(wdir)
            root == SplitExt(BaseTarget)[1]
            ext == SplitExt(BaseTarget)[2]
        IN  /\ target_path \notin names
            /\ BaseTarget \notin names => target_path = BaseTarget
            /\ BaseTarget \in names =>
                  \E k \in 1..(Cardinality(names) + 1) :
                      /\ target_path = Suffixed(root, k, ext)
                      /\ \A j \in 1..(k - 1) : Suffixed(root, j, ext) \in names

\* the base name and its " (1)" are taken by earlier runs: " (2)" is chosen
C4_Witness ==
    /\ pe_pc = "move"
    /\ BaseTarget \in Names(wdir)
    /\ target_path = Suffixed(SplitExt(BaseTarget)[1], 2, DotMp3)

\* ------------------------------------------------------------------------
\* C5
\* ------------------------------------------------------------------------
\* C5: a wait for the row's file ends only by a poll that finds a new file
\* or, once the ceiling has elapsed, by TimeoutError; a row
\* that timed out is handled as failed (logged, and the loop past it); and
\* the worker, once it waits for a file, always comes to end the shard.
C5_TimeoutThenProceed ==
    /\ [][(pe_pc = "poll" /\ pe_pc' # "poll") =>
             \/ pe_pc' = "rename" /\ NewFiles(wdir, observed) # {}
             \/ /\ pe_pc' = "except"
                /\ elapsed >= DOWNLOAD_APPEAR_TIMEOUT
                /\ (row_idx + 1) \in timeouts']_vars
    /\ [](\A r \in timeouts :
             \/ pe_pc = "except" /\ row_idx + 1 = r
             \/ r \in log_errors /\ row_idx >= r /\ ~RowRecorded(r))
    /\ (pe_pc = "poll") ~> PeEnded

\* row 1 timed out with nothing downloaded, was logged, and the worker is
\* at work on row 2
C5_Witness ==
    /\ 1 \in timeouts
    /\ 1 \in log_errors
    /\ \A f \in wdir : f.src # 1
    /\ row_idx = 1
    /\ pe_pc = "load"

\* ------------------------------------------------------------------------
\* C10
\* ------------------------------------------------------------------------
\* C10 as stated: the extension of the recorded path equals the extension
\* of the detected file, ".mp3" when that has none.
C10_ExtEqualsDetected ==
    \A r \in DOMAIN df_out :
        RowRecorded(r) =>
            SplitExt(df_out[r].val)[2] =
                (IF SplitExt(detected[r])[2] = <<>> THEN DotMp3
                 ELSE SplitExt(detected[r])[2])

\* C10, amended: the extension of the recorded path equals the extension of
\* the detected file in lower case, ".mp3" when that has none.
C10_ExtIsLoweredDetected ==
    \A r \in DOMAIN df_out :
        RowRecorded(r) =>
            SplitExt(df_out[r].val)[2] =
                (IF SplitExt(detected[r])[2] = <<>> THEN DotMp3
                 ELSE Lower(SplitExt(detected[r])[2]))

\* row 1 recorded from a file with an extension, row 2 from one without
C10_Witness ==
    /\ Len(df_out) = 2
    /\ RowRecorded(1) /\ SplitExt(detected[1])[2] = <<".","W","A","V">>
    /\ RowRecorded(2) /\ SplitExt(detected[2])[2] = <<>>

\* ------------------------------------------------------------------------
\* C7
\* ------------------------------------------------------------------------
AllWorkersDone == mp_pc = "run" /\ \A w \in Workers : w_pc[w] = "done"

MainParallelEnded == mp_pc \in {"returned", "raised"}

\* C7: no update of global_stats is lost: completed + failed never exceeds
\* total, equals total once every worker has finished, and when
\* main_parallel has aggregated the batch results its successful_count
\* equals global_stats["completed"].
C7_StatsAgree ==
    /\ global_stats.completed + global_stats.failed <= global_stats.total
    /\ (AllWorkersDone \/ MainParallelEnded) =>
          global_stats.completed + global_stats.failed = global_stats.total
    /\ MainParallelEnded => successful_count = global_stats.completed

\* the part of C7 that is about the lock: the counters never exceed the
\* total and add up to it when the workers are done
StatsCountEverySentenceOnce ==
    /\ global_stats.completed + global_stats.failed <= global_stats.total
    /\ (AllWorkersDone \/ MainParallelEnded) =>
          global_stats.completed + global_stats.failed = global_stats.total

\* ------------------------------------------------------------------------
\* C8
\* ------------------------------------------------------------------------
\* C8: no error is fatal to main_parallel: it never ends by raising.
C8_MainParallelNeverRaises == mp_pc # "raised"

\* ------------------------------------------------------------------------
\* C9 (API variant)
\* ------------------------------------------------------------------------
\* C9: no two workers write files in the same directory.
C9_DirectoriesExclusive ==
    \A a, b \in api_writes : a.w # b.w => a.dir # b.dir

\* ------------------------------------------------------------------------
\* C11
\* ------------------------------------------------------------------------
InputNames == {ExcelFile(w) : w \in Shards}

\* C11: no step of a process_excel call changes or removes an input
\* spreadsheet that is on disk; the name a shard writes its table to is the
\* stem of its input plus OUTPUT_SUFFIX, differs from the name of every
\* shard's input and from every other shard's output; and once a call has
\* returned, that file holds the shard's output.
C11_InputNeverWritten ==
    /\ [][\A p \in InputNames \cap DOMAIN xl_fs :
             p \in DOMAIN xl_fs' /\ xl_fs'[p] = xl_fs[p]]_vars
    /\ [](/\ \A w, v \in Shards :
                /\ OutExcelName(ExcelFile(w)) = ExcelStem(w) \o OUTPUT_SUFFIX
                /\ OutExcelName(ExcelFile(w)) # ExcelFile(v)
                /\ w # v => OutExcelName(ExcelFile(w)) # OutExcelName(ExcelFile(v))
          /\ \A p \in DOMAIN xl_fs :
                xl_fs[p].kind = "input" <=> p \in InputNames
          /\ \A w \in Shards :
                f_pc[w] = "returned" =>
                   /\ OutExcelName(ExcelFile(w)) \in DOMAIN xl_fs
                   /\ xl_fs[OutExcelName(ExcelFile(w))] = [kind |-> "output", shard |-> w]
                   /\ xl_fs[ExcelFile(w)] = [kind |-> "input", shard |-> w])

\* every call has returned: five inputs and five outputs are on disk
C11_Witness ==
    /\ \A w \in Shards : f_pc[w] = "returned"
    /\ Cardinality(DOMAIN xl_fs) = 2 * NumShards
    /\ \A w \in Shards : xl_fs[ExcelFile(w)].kind = "input"

\* ------------------------------------------------------------------------
\* C12
\* ------------------------------------------------------------------------
\* the response has status 200 and a body that is not blank
GaOkBody == ~ga_resp.raises /\ ga_resp.status = 200 /\ ~ga_resp.empty

\* the first decode that succeeds, in the order JSON audio field, whole body
\* as base64, raw bytes
FirstDecode(r) ==
    IF r.json = "audio_ok" THEN "json_audio"
    ELSE IF r.b64 THEN "body_base64" ELSE "raw"

\* C12: for a 200 response with a body, generate_audio returns True and the
\* file holds the bytes of the first decode that succeeds, a later decode
\* being tried whenever the earlier one did not succeed.
C12_FirstDecodeWins ==
    (ga_pc = "done" /\ GaOkBody) =>
        /\ ga_ret = "True"
        /\ SentenceFileName(ga_num) \in DOMAIN ga_dir
        /\ ga_dir[SentenceFileName(ga_num)] =
              [by |-> "call", data |-> FirstDecode(ga_resp)]

\* ------------------------------------------------------------------------
\* C20
\* ------------------------------------------------------------------------
\* C20: generate_audio overwrites no file: every file that was in
\* DOWNLOAD_DIR before the call is there unchanged.
C20_NoOverwrite ==
    \A q \in ga_prior : q \in DOMAIN ga_dir /\ ga_dir[q].by = "prior"

\* ------------------------------------------------------------------------
\* C13
\* ------------------------------------------------------------------------
\* the finished files in the worker directory that stem from the download
\* click of row r
ArrivedFor(r) == {f \in wdir : f.src = r /\ ~EndsWith(f.name, CrDownload)}

\* C13: the snapshot wait_for_file compares against holds no file that
\* arrived after the row's download click: while the worker polls, every
\* finished file of the row's own download is outside the snapshot.
C13_SnapshotBeforeClick ==
    pe_pc = "poll" => \A f \in ArrivedFor(row_idx + 1) : f.name \notin observed

\* ------------------------------------------------------------------------
\* C14
\* ------------------------------------------------------------------------
\* f is in the listing, not in the snapshot, and not in progress
Eligible(f) == f \in wdir /\ f.name \notin observed /\ ~EndsWith(f.name, CrDownload)

\* C14: when wait_for_file returns, the file returned is in the directory
\* at that poll, is not in the snapshot, does not end in ".crdownload", and
\* no other such file has a greater modification time; and a poll that goes
\* on waiting has found no such file.
C14_ReturnsNewestNewFile ==
    /\ [][(pe_pc = "poll" /\ pe_pc' = "rename") =>
             \E f \in wdir :
                /\ f.name = downloaded'
                /\ Eligible(f)
                /\ \A g \in wdir : Eligible(g) => g.mtime <= f.mtime]_vars
    /\ [][(pe_pc = "poll" /\ pe_pc' = "poll" /\ elapsed' # elapsed) =>
             ~\E f \in wdir : Eligible(f)]_vars

\* wait_for_file has returned, for row 2, the newer of two finished
\* downloads that lie in the directory, the older one stemming from row 1
C14_Witness ==
    /\ pe_pc = "rename"
    /\ row_idx = 1
    /\ \E f, g \in wdir :
          /\ f.src = 2 /\ g.src = 1
          /\ ~EndsWith(f.name, CrDownload) /\ ~EndsWith(g.name, CrDownload)
          /\ g.name \in DownloadNames
          /\ g.mtime < f.mtime
          /\ downloaded = f.name

\* ------------------------------------------------------------------------
\* C15
\* ------------------------------------------------------------------------
\* what the row has logged for selector sel of control ctl
Attempt(ctl, sel) == SelectSeq(rc_log, LAMBDA e : e.ctl = ctl /\ e.sel = sel)

\* the same without the wait for the element, as pairs <<act, ok>>
ClickPairs(ctl, sel) ==
    LET q == SelectSeq(Attempt(ctl, sel), LAMBDA e : e.act # "wait")
    IN  [i \in DOMAIN q |-> <<q[i].act, q[i].ok>>]

\* the row is done with selector sel of control ctl
AttemptEnded(ctl, sel) ==
    ~(rc_ctl = ctl /\ rc_sel = sel /\ rc_step \in {"wait", "click", "scroll"})

IsPrefix(q, r) == Len(q) <= Len(r) /\ q = SubSeq(r, 1, Len(q))

\* the three-tier sequence: native click; scroll into view and native click;
\* script click; each tier only after the one before failed
ThreeTier ==
    {<< <<"native", TRUE>> >>,
     << <<"native", FALSE>>, <<"scroll", TRUE>>, <<"renative", TRUE>> >>,
     << <<"native", FALSE>>, <<"scroll", TRUE>>, <<"renative", FALSE>>,
        <<"script", TRUE>> >>,
     << <<"native", FALSE>>, <<"scroll", TRUE>>, <<"renative", FALSE>>,
        <<"script", FALSE>> >>}

ClickControls == {"mohan", "shruti", "convert", "download"}

\* C15: every click, on every control and selector, follows the three-tier
\* sequence, and is given up only when the script click has failed too.
C15_ThreeTierClicks ==
    \A ctl \in ClickControls, sel \in {"primary", "fallback"} :
        /\ \E t \in ThreeTier : IsPrefix(ClickPairs(ctl, sel), t)
        /\ (AttemptEnded(ctl, sel) /\ ClickPairs(ctl, sel) # <<>>) =>
              ClickPairs(ctl, sel) \in ThreeTier

\* ------------------------------------------------------------------------
\* C16
\* ------------------------------------------------------------------------
Last(q) == q[Len(q)]

\* the last thing logged for the selector is a failure that ends the attempt
\* on it: the wait timed out, the scroll raised, or the last tier failed
AttemptFailed(ctl, sel) ==
    /\ Attempt(ctl, sel) # <<>>
    /\ ~Last(Attempt(ctl, sel)).ok
    /\ Last(Attempt(ctl, sel)).act \in {"wait", "scroll", TierAct(Tiers(ctl))}

\* the clicks on the control that went through
Clicked(ctl) ==
    SelectSeq(rc_log, LAMBDA e : e.ctl = ctl /\ e.ok
                                  /\ e.act \in {"native", "renative", "script"})

WaitsFor(ctl, sel) == SelectSeq(Attempt(ctl, sel), LAMBDA e : e.act = "wait")

\* C16: for the convert and the download control the primary selector is
\* waited for first and once; the fallback selector is waited for once,
\* exactly when the attempt on the primary has failed (not found or not
\* clickable); the row fails at the control exactly when the attempt on the
\* fallback has failed too; and at most one click on the control goes through.
C16_FallbackOnce ==
    \A ctl \in {"convert", "download"} :
        /\ \A i, j \in DOMAIN rc_log :
              (rc_log[i].ctl = ctl /\ rc_log[j].ctl = ctl /\ rc_log[i].sel = "fallback"
               /\ rc_log[j].sel = "primary") => j < i
        /\ Len(WaitsFor(ctl, "primary")) <= 1
        /\ Len(WaitsFor(ctl, "fallback")) <= 1
        /\ Attempt(ctl, "fallback") # <<>> => AttemptFailed(ctl, "primary")
        /\ AttemptFailed(ctl, "primary") =>
              \/ Attempt(ctl, "fallback") # <<>>
              \/ rc_ctl = ctl /\ rc_sel = "fallback" /\ rc_step = "wait"
        /\ (rc_ctl = ctl /\ rc_step = "failed") <=> AttemptFailed(ctl, "fallback")
        /\ Len(Clicked(ctl)) <= 1

\* the convert control was clicked through its fallback selector after the
\* primary was not found, and the row is at the download control
C16_Witness ==
    /\ rc_ctl = "download"
    /\ ~Last(WaitsFor("convert", "primary")).ok
    /\ Len(Clicked("convert")) = 1
    /\ Last(Clicked("convert")).sel = "fallback"

\* ------------------------------------------------------------------------
\* C17
\* ------------------------------------------------------------------------
\* C17: the seconds a row waits for the page to load never exceed
\* PAGE_LOAD_TIMEOUT, those it waits for the download control (the end of the
\* conversion) never exceed CONVERT_TIMEOUT.
C17_HardCeilings ==
    /\ rc_ctl = "load" => rc_waited <= PAGE_LOAD_TIMEOUT
    /\ rc_ctl = "download" => rc_waited <= CONVERT_TIMEOUT

\* ------------------------------------------------------------------------
\* C18
\* ------------------------------------------------------------------------
\* the files the browser has put into the worker directory during the run
\* (the files that were there before the run have src 0)
Artifacts == {f \in wdir : f.src # 0}

\* the file lies under the name a row has moved it to
Consumed(f) ==
    \E r \in DOMAIN df_out : RowRecorded(r) /\ df_out[r].val = f.name

\* C18: every artifact is moved by exactly one row: no two rows record the
\* same file, and when process_excel has returned no artifact lies in the
\* directory that no row has moved.
C18_ConsumedExactlyOnce ==
    /\ \A r1, r2 \in DOMAIN df_out :
          (RowRecorded(r1) /\ RowRecorded(r2) /\ df_out[r1].val = df_out[r2].val)
             => r1 = r2
    /\ pe_pc = "returned" => \A f \in Artifacts : Consumed(f)

\* ------------------------------------------------------------------------
\* C19
\* ------------------------------------------------------------------------
\* The state of row r, read off the position of process_excel: the rows the
\* loop has left are Skipped (blank), Failed (error logged) or Success; the
\* row the loop is in is Pending until the convert click went through,
\* Submitted until the download click went through, WaitingForArtifact
\* until the move, Failed once an exception is on its way to the handler.
RowState(r) ==
    IF r <= row_idx
    THEN IF SkipRow(pe_cells[r]) THEN "Skipped"
         ELSE IF r \in log_errors THEN "Failed" ELSE "Success"
    ELSE IF r = row_idx + 1
    THEN CASE pe_pc = "download" -> "Submitted"
           [] pe_pc \in {"snapshot", "poll", "rename", "move"} -> "WaitingForArtifact"
           [] pe_pc = "except" -> "Failed"
           [] OTHER -> "Pending"
    ELSE "Pending"

TerminalStates == {"Skipped", "Success", "Failed"}

\* Pending -> Submitted -> WaitingForArtifact -> Success, Pending -> Skipped,
\* and Failed from every state that is not terminal
RowMoves ==
    {<<"Pending", "Submitted">>, <<"Submitted", "WaitingForArtifact">>,
     <<"WaitingForArtifact", "Success">>, <<"Pending", "Skipped">>,
     <<"Pending", "Failed">>, <<"Submitted", "Failed">>,
     <<"WaitingForArtifact", "Failed">>}

RecordedFrom(r) == {f.src : f \in {g \in wdir : g.name = df_out[r].val}}

\* C21: the file recorded for row r is the artifact of row r's own download
\* click, whatever the rows and the arrival times of the downloads; a late
\* artifact of an earlier row is never recorded as a later row's output.
C21_RecordsOwnArtifact ==
    \A r \in DOMAIN df_out : RowRecorded(r) => RecordedFrom(r) \subseteq {r}

\* ------------------------------------------------------------------------
\* C22
\* ------------------------------------------------------------------------
\* the calls of generate_audio made so far: worker, position in the
\* worker's batch_results, sentence number
Submissions ==
    UNION {{[w |-> w, k |-> k, num |-> batch_results[w][k][1]] :
              k \in 1..Len(batch_results[w])} : w \in Workers}

\* the sentence numbers of worker w's batch
BatchNumbers(w) == {batches[w][2][k][1] : k \in 1..Len(batches[w][2])}

\* C22: within one run of main_parallel the sentence numbers of different
\* batches are disjoint, a sentence number is submitted by the one worker
\* whose batch holds it and only once, every sentence has been submitted
\* when all workers are done, and two files written under the same path
\* are the same sentence of the same worker: no two workers write the same
\* sentence_NNNN.mp3.
C22_DistinctTargets ==
    /\ mp_pc = "run" =>
          \A w1, w2 \in Workers : w1 # w2 => BatchNumbers(w1) \cap BatchNumbers(w2) = {}
    /\ \A s \in Submissions : s.num \in BatchNumbers(s.w)
    /\ \A s1, s2 \in Submissions : s1.num = s2.num => s1 = s2
    /\ (mp_pc = "run" /\ \A w \in Workers : w_pc[w] = "done") =>
          {s.num : s \in Submissions} = 1..Len(sentences)
    /\ \A a, b \in api_writes :
          (a.dir = b.dir /\ a.name = b.name) => (a.w = b.w /\ a.num = b.num)

\* two workers have each written a file and neither has gone on
C22_Witness ==
    \E a, b \in api_writes :
       /\ a.w # b.w
       /\ w_pc[a.w] = "lock"
       /\ w_pc[b.w] = "lock"
       /\ a.name # b.name

====
